---------------------------- MODULE Spec2Model ----------------------------
(***************************************************************************)
(* A model of the FruitSalade Cloud Files bridge (cfapi_shim.cpp): the     *)
(* C-linkage wrappers, the two callbacks and the platform calls they make. *)
(* The platform (cldapi, kernel32, ole32) is the environment: each of its  *)
(* calls is an operator over the platform's state, used by the wrapper     *)
(* that calls it.                                                          *)
(*                                                                         *)
(* 64-bit values are sequences of 8 bytes, least significant first, so     *)
(* that the arithmetic of UnixToFileTime keeps its width.  C strings are   *)
(* the bytes of the memory a pointer leads to, terminator included.        *)
(***************************************************************************)
EXTENDS Integers, Sequences, FiniteSets, TLC

(* ---------- bounds of the model ---------- *)

\* Connection keys the platform can issue before CfConnectSyncRoot runs out.
MaxConn == 1
\* Fetch requests the platform issues in one run (one transfer key each).
MaxTransfers == 1
\* Fetch requests the platform issues in a run of the dispatcher: callbacks
\* that can be under way at the same time.
MaxCallbacks == 2

(* ---------- 64-bit arithmetic on bytes ---------- *)

Byte == 0..255

Zero64 == <<0, 0, 0, 0, 0, 0, 0, 0>>

\* The 8 bytes of a small non-negative integer.
RECURSIVE Bytes(_, _)
Bytes(n, len) == IF len = 0 THEN <<>> ELSE <<n % 256>> \o Bytes(n \div 256, len - 1)

ToI64(n) == Bytes(n, 8)

RECURSIVE AddC(_, _, _, _)
AddC(a, b, i, c) ==
    IF i > Len(a) THEN <<>>
    ELSE LET s == a[i] + b[i] + c
         IN  <<s % 256>> \o AddC(a, b, i + 1, s \div 256)

\* Addition modulo 2^64.
Add64(a, b) == AddC(a, b, 1, 0)

RECURSIVE ColSum(_, _, _, _)
ColSum(a, b, i, j) ==
    IF j > i THEN 0 ELSE a[j] * b[i + 1 - j] + ColSum(a, b, i, j + 1)

RECURSIVE MulC(_, _, _, _)
MulC(a, b, i, c) ==
    IF i > Len(a) THEN <<>>
    ELSE LET s == ColSum(a, b, i, 1) + c
         IN  <<s % 256>> \o MulC(a, b, i + 1, s \div 256)

\* Multiplication modulo 2^64.
Mul64(a, b) == MulC(a, b, 1, 0)

\* Two's complement negation: the bytes of -n as a long long.
Neg64(a) == Add64([i \in 1..8 |-> 255 - a[i]], ToI64(1))

\* 11644473600 = 0x2B6109100: seconds from 1601-01-01 to 1970-01-01.
EPOCH_DIFF == <<0, 145, 16, 182, 2, 0, 0, 0>>

\* 10000000 = 0x989680: 100-ns intervals in a second.
TICKS_PER_SEC == <<128, 150, 152, 0, 0, 0, 0, 0>>

\* UnixToFileTime as it would be with the epoch difference, a number of
\* seconds, added after the multiplication instead of before it.
UnixToFileTime_EpochAfter(unixTime) ==
    LET QuadPart == Add64(Mul64(unixTime, TICKS_PER_SEC), EPOCH_DIFF)
    IN  [dwLowDateTime  |-> SubSeq(QuadPart, 1, 4),
         dwHighDateTime |-> SubSeq(QuadPart, 5, 8)]

\* static FILETIME UnixToFileTime(long long unixTime)
UnixToFileTime(unixTime) ==
    LET QuadPart == Mul64(Add64(unixTime, EPOCH_DIFF), TICKS_PER_SEC)
    IN  [dwLowDateTime  |-> SubSeq(QuadPart, 1, 4),
         dwHighDateTime |-> SubSeq(QuadPart, 5, 8)]

\* *reinterpret_cast<LONGLONG *>(&ft): the FILETIME's 8 bytes read as one value.
FileTimeQuad(ft) == ft.dwLowDateTime \o ft.dwHighDateTime

\* The modification times of the runs: 1700000000 (the scenario's) and -1
\* (one second before 1970).
ScenarioMtime == ToI64(1700000000)
MtimeArgs == {ScenarioMtime, Neg64(ToI64(1))}

\* The times the codec is run on: 0, the seconds around it and around a day's
\* end, times before 1970, the scenario's time and the largest 32-bit time.
TimeSamples == {0, 1, -1, 59, 86399, 86400, 86401, -86400, -86401, 951782400,
                1700000000, 2147483647, -2147483647}
TimeArgs == {ToI64(n) : n \in TimeSamples}

\* FILETIME ftMtime = UnixToFileTime(mtime_unix), for the times of the runs.
FileTimeOf == [t \in MtimeArgs \cup TimeArgs |-> UnixToFileTime(t)]

(* ---------- C strings ---------- *)

\* size_t strlen(const char *): the bytes before the first zero byte.
RECURSIVE strlen(_)
strlen(mem) == IF mem[1] = 0 THEN 0 ELSE 1 + strlen(Tail(mem))

\* The memory a caller hands over for a byte blob: the blob and a terminator.
CString(blob) == blob \o <<0>>

\* static std::wstring Utf8ToWide(const char *utf8): every byte below 0x80 is
\* its own code unit, every byte that starts no valid sequence becomes U+FFFD.
REPLACEMENT_CHAR == 65533

Utf8ToWide(utf8) ==
    IF utf8[1] = 0 THEN <<>>
    ELSE [i \in 1..strlen(utf8) |->
             IF utf8[i] < 128 THEN utf8[i] ELSE REPLACEMENT_CHAR]

(* ---------- status codes ---------- *)

S_OK == 0
S_FALSE == 1
STATUS_SUCCESS == 0
\* 0x80010106
RPC_E_CHANGED_MODE == -2147417850
\* 0x80070057
E_INVALIDARG == -2147024809
\* 0x8007000E
E_OUTOFMEMORY == -2147024882
\* 0x80004005
E_FAIL == -2147467259
ERROR_FILE_NOT_FOUND == 2
ERROR_PATH_NOT_FOUND == 3
ERROR_INVALID_HANDLE == 6
ERROR_INVALID_NAME == 123
ERROR_ALREADY_EXISTS == 183
ERROR_CLOUD_FILE_ALREADY_CONNECTED == 378
ERROR_CLOUD_FILE_INVALID_REQUEST == 380
ERROR_CLOUD_FILE_NOT_UNDER_SYNC_ROOT == 390
ERROR_NOT_A_CLOUD_FILE == 376
ERROR_CLOUD_FILE_NOT_IN_SYNC == 377
ERROR_CLOUD_FILE_NOT_SUPPORTED == 379

FAILED(hr) == hr < 0
SUCCEEDED(hr) == hr >= 0
\* NT_SUCCESS(status): the platform's test of a completion status.
NT_SUCCESS(status) == status >= 0

\* 0x80070000: FACILITY_WIN32 with the failure bit.
FACILITY_WIN32_FAILURE == -2147024896

HRESULT_FROM_WIN32(x) ==
    IF x <= 0 THEN x ELSE FACILITY_WIN32_FAILURE + (x % 65536)

(* ---------- the names the platform knows ---------- *)

\* The one local directory that exists: "s".
SyncDir == <<115>>
Directories == {SyncDir}

\* Windows joins a directory and a relative name with a backslash.
PathJoin(dir, name) == dir \o <<92>> \o name

\* static const CLSID s_providerId
s_providerId == "A1B2C3D4-E5F6-7890-ABCD-EF1234567890"

\* static CF_CALLBACK_REGISTRATION s_callbackTable[]
CallbackTable ==
    << [Type |-> "CF_CALLBACK_TYPE_FETCH_DATA",        Callback |-> "FetchDataCallback"],
       [Type |-> "CF_CALLBACK_TYPE_CANCEL_FETCH_DATA", Callback |-> "CancelFetchDataCallback"] >>

ConnKeys == 1..MaxConn
TransferKeys == 1..MaxTransfers

VARIABLES
    comMode,          \* the thread's COM apartment: "none", "mta" or "sta"
    syncRoots,        \* the platform's registrations: wide path -> registration
    conn,             \* the platform's connections: key -> state, root, table
    xfer,             \* the platform's fetch requests: transfer key -> record
    files,            \* the file system: wide path -> placeholder record
    s_callbackTable,  \* the bridge's callback table
    cb,               \* FetchDataCallback invocations: transfer key -> position
    engineQueue,      \* requests goHydrationCallback handed to the engine
    last,             \* the last bridge operation: name, arguments, result, platform calls
    hist              \* what the engine has been told: calls that took effect

vars == <<comMode, syncRoots, conn, xfer, files, s_callbackTable, cb,
          engineQueue, last, hist>>

platform == <<comMode, syncRoots, conn, xfer, files>>

NoConn == [state |-> "unused", root |-> <<>>, table |-> <<>>]
NoXfer == [state |-> "unused", conn |-> 0, file |-> <<>>, identity |-> <<>>,
           offset |-> 0, length |-> 0, got |-> {}]

\* A void function returns nothing: ret is <<>>; otherwise <<status>>.
Void == <<>>
Returns(hr) == <<hr>>

Call(fn, hr) == [fn |-> fn, hr |-> hr]

\* This call comes right after a successful call of the same operation with
\* the same arguments.
Repeats(op, args) ==
    /\ last.op = op /\ last.args = args
    /\ last.ret # Void /\ last.ret[1] = 0

\* This call comes right after a successful cfapi_dehydrate_placeholder of
\* the same path.
FollowsDehydrate(file_path) ==
    /\ last.op = "cfapi_dehydrate_placeholder" /\ last.args = <<file_path>>
    /\ last.ret = <<0>>

Init ==
    /\ comMode = "none"
    /\ syncRoots = <<>>
    /\ conn = [c \in ConnKeys |-> NoConn]
    /\ xfer = [k \in TransferKeys |-> NoXfer]
    /\ files = <<>>
    /\ s_callbackTable = CallbackTable
    /\ cb = [k \in TransferKeys |-> "none"]
    /\ engineQueue = <<>>
    /\ last = [op |-> "none", args |-> <<>>, ret |-> Void, os |-> <<>>]
    /\ hist = [called |-> {}, failed |-> {}, disconnected |-> {}]

\* The byte offsets of a range.
Range(offset, length) == offset .. (offset + length - 1)

\* The directory of a path "d\n" with a one-letter name.
Parent(path) == SubSeq(path, 1, Len(path) - 2)

Min(S) == CHOOSE x \in S : \A y \in S : x <= y

(* ---------- functions with a growing domain ---------- *)

Put(f, k, v) == [x \in DOMAIN f \cup {k} |-> IF x = k THEN v ELSE f[x]]
Drop(f, k) == [x \in DOMAIN f \ {k} |-> f[x]]

(* ---------- cfapi_init ---------- *)

\* CoInitializeEx(nullptr, COINIT_MULTITHREADED)
CoInitializeEx ==
    CASE comMode = "none" -> [hr |-> S_OK, mode |-> "mta"]
      [] comMode = "mta"  -> [hr |-> S_FALSE, mode |-> "mta"]
      [] OTHER            -> [hr |-> RPC_E_CHANGED_MODE, mode |-> comMode]

\* Code of the host process that ran on this thread first entered a
\* single-threaded apartment, the case cfapi_init's test of RPC_E_CHANGED_MODE
\* is written for.
HostEntersSTA ==
    /\ comMode = "none"
    /\ comMode' = "sta"
    /\ UNCHANGED <<syncRoots, conn, xfer, files, s_callbackTable, cb,
                   engineQueue, last, hist>>

\* long cfapi_init(void)
cfapi_init ==
    LET r == CoInitializeEx
        hr == r.hr
    IN  /\ comMode' = r.mode
        /\ last' = [op |-> "cfapi_init", args |-> <<>>,
                    ret |-> IF FAILED(hr) /\ hr # RPC_E_CHANGED_MODE
                            THEN Returns(hr) ELSE Returns(0),
                    os |-> <<Call("CoInitializeEx", hr)>>]
        /\ UNCHANGED <<syncRoots, conn, xfer, files, s_callbackTable, cb,
                       engineQueue, hist>>

(* ---------- Sync Root Registrar ---------- *)

\* CfRegisterSyncRoot(path, registration, policies, flags)
CfRegisterSyncRoot(path, reg, policies, flags) ==
    IF path \notin Directories
    THEN [hr |-> HRESULT_FROM_WIN32(ERROR_PATH_NOT_FOUND), roots |-> syncRoots]
    ELSE IF path \in DOMAIN syncRoots /\ "CF_REGISTER_FLAG_UPDATE" \notin flags
    THEN [hr |-> HRESULT_FROM_WIN32(ERROR_ALREADY_EXISTS), roots |-> syncRoots]
    ELSE [hr |-> S_OK,
          roots |-> Put(syncRoots, path, [reg |-> reg, policies |-> policies])]

\* CF_SYNC_REGISTRATION reg, as cfapi_register_sync_root fills it.
Registration(wName, wVer) ==
    [ProviderName |-> wName, ProviderVersion |-> wVer, ProviderId |-> s_providerId]

\* CF_SYNC_POLICIES policies, as cfapi_register_sync_root fills it.
Policies ==
    [Hydration  |-> "CF_HYDRATION_POLICY_FULL",
     Population |-> "CF_POPULATION_POLICY_FULL",
     InSync     |-> "CF_INSYNC_POLICY_TRACK_ALL",
     HardLink   |-> "CF_HARDLINK_POLICY_NONE"]

\* The registration flags as they would be without CF_REGISTER_FLAG_UPDATE.
RegisterFlags_None == {}

RegisterFlags == {"CF_REGISTER_FLAG_UPDATE"}

\* long cfapi_register_sync_root(sync_root_path, display_name, version)
cfapi_register_sync_root(sync_root_path, display_name, version) ==
    LET wRoot == Utf8ToWide(sync_root_path)
        wName == Utf8ToWide(display_name)
        wVer  == Utf8ToWide(version)
        r == CfRegisterSyncRoot(wRoot, Registration(wName, wVer), Policies,
                                RegisterFlags)
    IN  /\ syncRoots' = r.roots
        /\ last' = [op |-> "cfapi_register_sync_root",
                    args |-> <<sync_root_path, display_name, version>>,
                    ret |-> Returns(r.hr),
                    repeated |-> Repeats("cfapi_register_sync_root",
                                         <<sync_root_path, display_name, version>>),
                    os |-> <<Call("CfRegisterSyncRoot", r.hr)>>]
        /\ UNCHANGED <<comMode, conn, xfer, files, s_callbackTable, cb,
                       engineQueue, hist>>

Connected(path) == \E c \in DOMAIN conn : conn[c].state = "live" /\ conn[c].root = path

\* CfUnregisterSyncRoot(path)
CfUnregisterSyncRoot(path) ==
    IF path \notin DOMAIN syncRoots
    THEN [hr |-> HRESULT_FROM_WIN32(ERROR_CLOUD_FILE_NOT_UNDER_SYNC_ROOT),
          roots |-> syncRoots]
    ELSE IF Connected(path)
    THEN [hr |-> HRESULT_FROM_WIN32(ERROR_CLOUD_FILE_ALREADY_CONNECTED),
          roots |-> syncRoots]
    ELSE [hr |-> S_OK, roots |-> Drop(syncRoots, path)]

\* long cfapi_unregister_sync_root(sync_root_path)
cfapi_unregister_sync_root(sync_root_path) ==
    LET wRoot == Utf8ToWide(sync_root_path)
        r == CfUnregisterSyncRoot(wRoot)
    IN  /\ syncRoots' = r.roots
        /\ last' = [op |-> "cfapi_unregister_sync_root",
                    args |-> <<sync_root_path>>,
                    ret |-> Returns(r.hr),
                    os |-> <<Call("CfUnregisterSyncRoot", r.hr)>>]
        /\ UNCHANGED <<comMode, conn, xfer, files, s_callbackTable, cb,
                       engineQueue, hist>>

(* ---------- Connection Manager ---------- *)

ConnectFlags == {"CF_CONNECT_FLAG_REQUIRE_PROCESS_INFO",
                 "CF_CONNECT_FLAG_REQUIRE_FULL_FILE_PATH"}

FreeConnKeys == {c \in DOMAIN conn : conn[c].state = "unused"}

\* CfConnectSyncRoot(path, callbackTable, callbackContext, flags, &key): key is
\* <<>> when the platform wrote none.
CfConnectSyncRoot(path, table, flags) ==
    IF path \notin DOMAIN syncRoots
    THEN [hr |-> HRESULT_FROM_WIN32(ERROR_CLOUD_FILE_NOT_UNDER_SYNC_ROOT),
          conn |-> conn, key |-> <<>>]
    ELSE IF Connected(path)
    THEN [hr |-> HRESULT_FROM_WIN32(ERROR_CLOUD_FILE_ALREADY_CONNECTED),
          conn |-> conn, key |-> <<>>]
    ELSE IF FreeConnKeys = {}
    THEN [hr |-> E_OUTOFMEMORY, conn |-> conn, key |-> <<>>]
    ELSE LET c == Min(FreeConnKeys)
         IN  [hr |-> S_OK,
              conn |-> [conn EXCEPT ![c] = [state |-> "live", root |-> path,
                                            table |-> table]],
              key |-> <<c>>]

\* long cfapi_connect_sync_root(sync_root_path, out_key)
cfapi_connect_sync_root(sync_root_path) ==
    LET wRoot == Utf8ToWide(sync_root_path)
        r == CfConnectSyncRoot(wRoot, s_callbackTable, ConnectFlags)
    IN  /\ conn' = r.conn
        /\ last' = [op |-> "cfapi_connect_sync_root",
                    args |-> <<sync_root_path>>,
                    ret |-> Returns(r.hr),
                    out_key |-> r.key,
                    os |-> <<Call("CfConnectSyncRoot", r.hr)>>]
        /\ UNCHANGED <<comMode, syncRoots, xfer, files, s_callbackTable, cb,
                       engineQueue, hist>>

\* CfDisconnectSyncRoot(key): the connection closes and its pending fetches
\* are abandoned.
CfDisconnectSyncRoot(key) ==
    IF key \in DOMAIN conn /\ conn[key].state = "live"
    THEN [hr |-> S_OK,
          conn |-> [conn EXCEPT ![key].state = "closed"],
          xfer |-> [k \in DOMAIN xfer |->
                      IF xfer[k].state = "pending" /\ xfer[k].conn = key
                      THEN [xfer[k] EXCEPT !.state = "abandoned"]
                      ELSE xfer[k]]]
    ELSE [hr |-> HRESULT_FROM_WIN32(ERROR_INVALID_HANDLE), conn |-> conn, xfer |-> xfer]

\* What the engine knows after Disconnect(key) of a connection it held.
NoteDisconnect(key) ==
    IF key \in DOMAIN conn /\ conn[key].state = "live"
    THEN [hist EXCEPT !.disconnected = @ \cup {key}]
    ELSE hist

\* cfapi_disconnect_sync_root as it would be if it dropped the key without
\* calling CfDisconnectSyncRoot.
cfapi_disconnect_sync_root_Forgets(key) ==
    /\ hist' = NoteDisconnect(key)
    /\ last' = [op |-> "cfapi_disconnect_sync_root",
                args |-> <<key>>,
                ret |-> Void,
                os |-> <<>>]
    /\ UNCHANGED <<comMode, syncRoots, conn, xfer, files, s_callbackTable, cb,
                   engineQueue>>

\* void cfapi_disconnect_sync_root(key)
cfapi_disconnect_sync_root(key) ==
    LET r == CfDisconnectSyncRoot(key)
    IN  /\ conn' = r.conn
        /\ xfer' = r.xfer
        /\ hist' = NoteDisconnect(key)
        /\ last' = [op |-> "cfapi_disconnect_sync_root",
                    args |-> <<key>>,
                    ret |-> Void,
                    os |-> <<Call("CfDisconnectSyncRoot", r.hr)>>]
        /\ UNCHANGED <<comMode, syncRoots, files, s_callbackTable, cb, engineQueue>>

(* ---------- Placeholder Manager: create ---------- *)

FILE_ATTRIBUTE_DIRECTORY == 16
FILE_ATTRIBUTE_NORMAL == 128

\* The bytes the platform copies out of an identity pointer.
IdentityBytes(mem, len) == SubSeq(mem, 1, len)

\* The placeholder the platform makes of one CF_PLACEHOLDER_CREATE_INFO.
NewPlaceholder(ph) ==
    [FileIdentity   |-> IdentityBytes(ph.FileIdentity, ph.FileIdentityLength),
     FileSize       |-> ph.FileSize,
     CreationTime   |-> ph.CreationTime,
     LastWriteTime  |-> ph.LastWriteTime,
     ChangeTime     |-> ph.ChangeTime,
     LastAccessTime |-> ph.LastAccessTime,
     FileAttributes |-> ph.FileAttributes,
     InSync         |-> "CF_PLACEHOLDER_CREATE_FLAG_MARK_IN_SYNC" \in ph.Flags,
     OnDemandPopulation |->
         /\ ph.FileAttributes = FILE_ATTRIBUTE_DIRECTORY
         /\ "CF_PLACEHOLDER_CREATE_FLAG_DISABLE_ON_DEMAND_POPULATION" \notin ph.Flags,
     OnDisk         |-> {}]

\* CfCreatePlaceholders(base, &phInfo, 1, CF_CREATE_FLAG_NONE, nullptr): the
\* outcomes the platform can produce.  When the one entry fails, the entry's
\* Result holds the failure and the call itself reports it or reports success.
CfCreatePlaceholders(base, ph) ==
    LET path == PathJoin(base, ph.RelativeFileName)
        entryFails(e) == {[hr |-> h, Result |-> e, files |-> files] : h \in {e, S_OK}}
    IN  IF base \notin Directories
        THEN {[hr |-> HRESULT_FROM_WIN32(ERROR_PATH_NOT_FOUND),
               Result |-> ph.Result, files |-> files]}
        ELSE IF base \notin DOMAIN syncRoots
        THEN {[hr |-> HRESULT_FROM_WIN32(ERROR_CLOUD_FILE_NOT_UNDER_SYNC_ROOT),
               Result |-> ph.Result, files |-> files]}
        ELSE IF ph.RelativeFileName = <<>>
        THEN entryFails(HRESULT_FROM_WIN32(ERROR_INVALID_NAME))
        ELSE IF path \in DOMAIN files
        THEN entryFails(HRESULT_FROM_WIN32(ERROR_ALREADY_EXISTS))
        ELSE {[hr |-> S_OK, Result |-> S_OK,
               files |-> Put(files, path, NewPlaceholder(ph))]}

\* PlaceholderCreateInfo as it would be if it tested is_directory == 1.
PlaceholderCreateInfo_TestsOne(wName, file_identity, file_size, ftMtime, is_directory) ==
    [FileIdentity       |-> file_identity,
     FileIdentityLength |-> strlen(file_identity),
     RelativeFileName   |-> wName,
     FileSize           |-> file_size,
     CreationTime       |-> FileTimeQuad(ftMtime),
     LastWriteTime      |-> FileTimeQuad(ftMtime),
     ChangeTime         |-> FileTimeQuad(ftMtime),
     LastAccessTime     |-> FileTimeQuad(ftMtime),
     FileAttributes     |-> IF is_directory = 1 THEN FILE_ATTRIBUTE_DIRECTORY
                            ELSE FILE_ATTRIBUTE_NORMAL,
     Flags              |-> IF is_directory = 1
                            THEN {"CF_PLACEHOLDER_CREATE_FLAG_MARK_IN_SYNC",
                                  "CF_PLACEHOLDER_CREATE_FLAG_DISABLE_ON_DEMAND_POPULATION"}
                            ELSE {"CF_PLACEHOLDER_CREATE_FLAG_MARK_IN_SYNC"},
     Result             |-> S_OK]

\* CF_PLACEHOLDER_CREATE_INFO phInfo, as cfapi_create_placeholder fills it.
PlaceholderCreateInfo(wName, file_identity, file_size, ftMtime, is_directory) ==
    [FileIdentity       |-> file_identity,
     FileIdentityLength |-> strlen(file_identity),
     RelativeFileName   |-> wName,
     FileSize           |-> file_size,
     CreationTime       |-> FileTimeQuad(ftMtime),
     LastWriteTime      |-> FileTimeQuad(ftMtime),
     ChangeTime         |-> FileTimeQuad(ftMtime),
     LastAccessTime     |-> FileTimeQuad(ftMtime),
     FileAttributes     |-> IF is_directory # 0 THEN FILE_ATTRIBUTE_DIRECTORY
                            ELSE FILE_ATTRIBUTE_NORMAL,
     Flags              |-> IF is_directory # 0
                            THEN {"CF_PLACEHOLDER_CREATE_FLAG_MARK_IN_SYNC",
                                  "CF_PLACEHOLDER_CREATE_FLAG_DISABLE_ON_DEMAND_POPULATION"}
                            ELSE {"CF_PLACEHOLDER_CREATE_FLAG_MARK_IN_SYNC"},
     Result             |-> S_OK]

\* cfapi_create_placeholder as it would be without its test of phInfo.Result.
cfapi_create_placeholder_IgnoresResult(parent_path, name, file_identity, file_size, mtime_unix, is_directory) ==
    LET wParent == Utf8ToWide(parent_path)
        wName   == Utf8ToWide(name)
        ftMtime == FileTimeOf[mtime_unix]
        phInfo  == PlaceholderCreateInfo(wName, file_identity, file_size,
                                         ftMtime, is_directory)
    IN  \E r \in CfCreatePlaceholders(wParent, phInfo) :
              /\ files' = r.files
              /\ last' = [op |-> "cfapi_create_placeholder",
                          args |-> <<parent_path, name, file_identity, file_size,
                                     mtime_unix, is_directory>>,
                          ret |-> Returns(r.hr),
                          phInfo |-> [phInfo EXCEPT !.Result = r.Result],
                          os |-> <<Call("CfCreatePlaceholders", r.hr)>>]
              /\ UNCHANGED <<comMode, syncRoots, conn, xfer, s_callbackTable, cb,
                             engineQueue, hist>>

\* long cfapi_create_placeholder(parent_path, name, file_identity, file_size,
\*                               mtime_unix, is_directory)
cfapi_create_placeholder(parent_path, name, file_identity, file_size, mtime_unix, is_directory) ==
    LET wParent == Utf8ToWide(parent_path)
        wName   == Utf8ToWide(name)
        ftMtime == FileTimeOf[mtime_unix]
        phInfo  == PlaceholderCreateInfo(wName, file_identity, file_size,
                                         ftMtime, is_directory)
    IN  \E r \in CfCreatePlaceholders(wParent, phInfo) :
          LET hr == IF SUCCEEDED(r.hr) /\ FAILED(r.Result) THEN r.Result ELSE r.hr
          IN  /\ files' = r.files
              /\ last' = [op |-> "cfapi_create_placeholder",
                          args |-> <<parent_path, name, file_identity, file_size,
                                     mtime_unix, is_directory>>,
                          ret |-> Returns(hr),
                          phInfo |-> [phInfo EXCEPT !.Result = r.Result],
                          os |-> <<Call("CfCreatePlaceholders", r.hr)>>]
              /\ UNCHANGED <<comMode, syncRoots, conn, xfer, s_callbackTable, cb,
                             engineQueue, hist>>

(* ---------- Placeholder Manager: update and dehydrate ---------- *)

INVALID_HANDLE_VALUE == <<>>

\* CreateFileW(path, WRITE_DAC, FILE_SHARE_READ, nullptr, OPEN_EXISTING,
\* FILE_FLAG_BACKUP_SEMANTICS, nullptr): a handle on the file or directory at
\* path, or INVALID_HANDLE_VALUE and the thread's last error.
CreateFileW(path) ==
    IF path \in DOMAIN files \/ path \in Directories
    THEN [handle |-> <<path>>, lastError |-> 0]
    ELSE [handle |-> INVALID_HANDLE_VALUE, lastError |-> ERROR_FILE_NOT_FOUND]

IsPlaceholder(hFile) == hFile[1] \in DOMAIN files

\* A field of FILE_BASIC_INFO that is zero leaves the file's value as it is.
Updated(old, new) == IF new = Zero64 THEN old ELSE new

\* CfUpdatePlaceholder(hFile, &fsMetadata, identity, identityLength, nullptr,
\* 0, flags, nullptr, nullptr)
CfUpdatePlaceholder(hFile, fsMetadata, identity, identityLength, flags) ==
    IF ~IsPlaceholder(hFile)
    THEN [hr |-> HRESULT_FROM_WIN32(ERROR_NOT_A_CLOUD_FILE), files |-> files]
    ELSE LET f == hFile[1]
             old == files[f]
         IN  [hr |-> S_OK,
              files |-> [files EXCEPT ![f] =
                 [old EXCEPT
                    !.FileIdentity   = IdentityBytes(identity, identityLength),
                    !.FileSize       = fsMetadata.FileSize,
                    !.CreationTime   = Updated(@, fsMetadata.CreationTime),
                    !.LastWriteTime  = Updated(@, fsMetadata.LastWriteTime),
                    !.ChangeTime     = Updated(@, fsMetadata.ChangeTime),
                    !.LastAccessTime = Updated(@, fsMetadata.LastAccessTime),
                    !.InSync         = IF "CF_UPDATE_FLAG_MARK_IN_SYNC" \in flags
                                       THEN TRUE ELSE @,
                    !.OnDisk         = @ \cap Range(0, fsMetadata.FileSize)]]]

\* CF_FS_METADATA fsMetadata, as cfapi_update_placeholder fills it.
FsMetadata(file_size, ftMtime) ==
    [FileSize       |-> file_size,
     CreationTime   |-> Zero64,
     LastWriteTime  |-> FileTimeQuad(ftMtime),
     ChangeTime     |-> FileTimeQuad(ftMtime),
     LastAccessTime |-> Zero64]

UpdateFlags == {"CF_UPDATE_FLAG_MARK_IN_SYNC"}

\* long cfapi_update_placeholder(file_path, file_identity, file_size, mtime_unix)
cfapi_update_placeholder(file_path, file_identity, file_size, mtime_unix) ==
    LET wPath   == Utf8ToWide(file_path)
        ftMtime == FileTimeOf[mtime_unix]
        open    == CreateFileW(wPath)
        hFile   == open.handle
        args    == <<file_path, file_identity, file_size, mtime_unix>>
    IN  IF hFile = INVALID_HANDLE_VALUE
        THEN /\ last' = [op |-> "cfapi_update_placeholder", args |-> args,
                         ret |-> Returns(HRESULT_FROM_WIN32(open.lastError)),
                         afterDehydrate |-> FollowsDehydrate(file_path),
                         os |-> <<[fn |-> "CreateFileW", handle |-> hFile]>>]
             /\ UNCHANGED <<comMode, syncRoots, conn, xfer, files,
                            s_callbackTable, cb, engineQueue, hist>>
        ELSE LET r == CfUpdatePlaceholder(hFile, FsMetadata(file_size, ftMtime),
                          file_identity, strlen(file_identity), UpdateFlags)
             IN  /\ files' = r.files
                 /\ last' = [op |-> "cfapi_update_placeholder", args |-> args,
                             ret |-> Returns(r.hr),
                             afterDehydrate |-> FollowsDehydrate(file_path),
                             os |-> <<[fn |-> "CreateFileW", handle |-> hFile],
                                      [fn |-> "CfUpdatePlaceholder", handle |-> hFile,
                                       hr |-> r.hr],
                                      [fn |-> "CloseHandle", handle |-> hFile]>>]
                 /\ UNCHANGED <<comMode, syncRoots, conn, xfer,
                                s_callbackTable, cb, engineQueue, hist>>

\* CfDehydratePlaceholder(hFile, 0, -1, CF_DEHYDRATE_FLAG_NONE, nullptr): the
\* whole file's content is dropped; a file with nothing on disk stays so.
CfDehydratePlaceholder(hFile) ==
    IF ~IsPlaceholder(hFile)
    THEN [hr |-> HRESULT_FROM_WIN32(ERROR_NOT_A_CLOUD_FILE), files |-> files]
    ELSE IF files[hFile[1]].FileAttributes = FILE_ATTRIBUTE_DIRECTORY
    THEN [hr |-> HRESULT_FROM_WIN32(ERROR_CLOUD_FILE_NOT_SUPPORTED), files |-> files]
    ELSE IF ~files[hFile[1]].InSync
    THEN [hr |-> HRESULT_FROM_WIN32(ERROR_CLOUD_FILE_NOT_IN_SYNC), files |-> files]
    ELSE [hr |-> S_OK, files |-> [files EXCEPT ![hFile[1]].OnDisk = {}]]

\* cfapi_dehydrate_placeholder as it would be if it returned a failure of
\* CfDehydratePlaceholder at once, before CloseHandle.
cfapi_dehydrate_placeholder_Leaks(file_path) ==
    LET wPath == Utf8ToWide(file_path)
        open  == CreateFileW(wPath)
        hFile == open.handle
    IN  IF hFile = INVALID_HANDLE_VALUE
        THEN /\ last' = [op |-> "cfapi_dehydrate_placeholder", args |-> <<file_path>>,
                         ret |-> Returns(HRESULT_FROM_WIN32(open.lastError)),
                         os |-> <<[fn |-> "CreateFileW", handle |-> hFile]>>]
             /\ UNCHANGED <<comMode, syncRoots, conn, xfer, files,
                            s_callbackTable, cb, engineQueue, hist>>
        ELSE LET r == CfDehydratePlaceholder(hFile)
                 opened == <<[fn |-> "CreateFileW", handle |-> hFile],
                             [fn |-> "CfDehydratePlaceholder", handle |-> hFile,
                              hr |-> r.hr]>>
             IN  /\ files' = r.files
                 /\ last' = [op |-> "cfapi_dehydrate_placeholder", args |-> <<file_path>>,
                             ret |-> Returns(r.hr),
                             os |-> IF FAILED(r.hr) THEN opened
                                    ELSE Append(opened, [fn |-> "CloseHandle",
                                                         handle |-> hFile])]
                 /\ UNCHANGED <<comMode, syncRoots, conn, xfer,
                                s_callbackTable, cb, engineQueue, hist>>

\* long cfapi_dehydrate_placeholder(file_path)
cfapi_dehydrate_placeholder(file_path) ==
    LET wPath == Utf8ToWide(file_path)
        open  == CreateFileW(wPath)
        hFile == open.handle
    IN  IF hFile = INVALID_HANDLE_VALUE
        THEN /\ last' = [op |-> "cfapi_dehydrate_placeholder", args |-> <<file_path>>,
                         ret |-> Returns(HRESULT_FROM_WIN32(open.lastError)),
                         os |-> <<[fn |-> "CreateFileW", handle |-> hFile]>>]
             /\ UNCHANGED <<comMode, syncRoots, conn, xfer, files,
                            s_callbackTable, cb, engineQueue, hist>>
        ELSE LET r == CfDehydratePlaceholder(hFile)
             IN  /\ files' = r.files
                 /\ last' = [op |-> "cfapi_dehydrate_placeholder", args |-> <<file_path>>,
                             ret |-> Returns(r.hr),
                             os |-> <<[fn |-> "CreateFileW", handle |-> hFile],
                                      [fn |-> "CfDehydratePlaceholder", handle |-> hFile,
                                       hr |-> r.hr],
                                      [fn |-> "CloseHandle", handle |-> hFile]>>]
                 /\ UNCHANGED <<comMode, syncRoots, conn, xfer,
                                s_callbackTable, cb, engineQueue, hist>>

\* The platform has hydrated file placeholder f: its whole content is on disk
\* (the state a fetch answered in full leaves).
PlatformHydrates(f) ==
    /\ f \in DOMAIN files
    /\ files[f].FileAttributes # FILE_ATTRIBUTE_DIRECTORY
    /\ files[f].OnDisk # Range(0, files[f].FileSize)
    /\ files' = [files EXCEPT ![f].OnDisk = Range(0, files[f].FileSize)]
    /\ last' = [op |-> "none", args |-> <<>>, ret |-> Void, os |-> <<>>]
    /\ UNCHANGED <<comMode, syncRoots, conn, xfer, s_callbackTable, cb,
                   engineQueue, hist>>

\* An application changes hydrated file f: under CF_INSYNC_POLICY_TRACK_ALL
\* the platform clears the placeholder's in-sync state.
ApplicationWrites(f) ==
    /\ f \in DOMAIN files
    /\ files[f].FileAttributes # FILE_ATTRIBUTE_DIRECTORY
    /\ files[f].OnDisk = Range(0, files[f].FileSize)
    /\ files[f].InSync
    /\ files' = [files EXCEPT ![f].InSync = FALSE]
    /\ last' = [op |-> "none", args |-> <<>>, ret |-> Void, os |-> <<>>]
    /\ UNCHANGED <<comMode, syncRoots, conn, xfer, s_callbackTable, cb,
                   engineQueue, hist>>

(* ---------- Hydration Dispatcher ---------- *)

\* The callback a connection's table holds for a callback type, <<>> if none.
CallbackFor(table, type) ==
    LET hits == {i \in DOMAIN table : table[i].Type = type}
    IN  IF hits = {} THEN <<>> ELSE <<table[Min(hits)].Callback>>

\* extern void goHydrationCallback(fileIdentity, fileIdentityLen, offset,
\* length, transferKey): the engine's side copies the identity and queues the
\* request; it does not wait.
goHydrationCallback(fileIdentity, fileIdentityLen, offset, length, transferKey) ==
    Append(engineQueue,
           [fileIdentity    |-> IdentityBytes(fileIdentity, fileIdentityLen),
            fileIdentityLen |-> fileIdentityLen,
            offset          |-> offset,
            length          |-> length,
            transferKey     |-> transferKey])

\* FetchDataCallback as it would be with two of goHydrationCallback's integer
\* arguments in each other's place: the required offset passed as the
\* identity's length.
FetchDataCallback_SwapsLength(callbackInfo, callbackParameters) ==
    LET fileIdentity    == callbackInfo.FileIdentity
        fileIdentityLen == callbackParameters.FetchData.RequiredFileOffset
        offset          == callbackInfo.FileIdentityLength
        length          == callbackParameters.FetchData.RequiredLength
        transferKey     == callbackInfo.TransferKey
    IN  goHydrationCallback(fileIdentity, fileIdentityLen, offset, length, transferKey)

\* FetchDataCallback as it would be with its offset in a function-local
\* static, initialised by the first invocation and read by every later one.
FetchDataCallback_StaticOffset(callbackInfo, callbackParameters) ==
    LET fileIdentity    == callbackInfo.FileIdentity
        fileIdentityLen == callbackInfo.FileIdentityLength
        offset          == IF engineQueue = <<>>
                           THEN callbackParameters.FetchData.RequiredFileOffset
                           ELSE engineQueue[1].offset
        length          == callbackParameters.FetchData.RequiredLength
        transferKey     == callbackInfo.TransferKey
    IN  goHydrationCallback(fileIdentity, fileIdentityLen, offset, length, transferKey)

\* FetchDataCallback as it would be if it returned before the call of
\* goHydrationCallback.
FetchDataCallback_Drops(callbackInfo, callbackParameters) == engineQueue

\* static void CALLBACK FetchDataCallback(callbackInfo, callbackParameters), up
\* to its call of goHydrationCallback: the engine's queue afterwards.
FetchDataCallback(callbackInfo, callbackParameters) ==
    LET fileIdentity    == callbackInfo.FileIdentity
        fileIdentityLen == callbackInfo.FileIdentityLength
        offset          == callbackParameters.FetchData.RequiredFileOffset
        length          == callbackParameters.FetchData.RequiredLength
        transferKey     == callbackInfo.TransferKey
    IN  goHydrationCallback(fileIdentity, fileIdentityLen, offset, length, transferKey)

FreeTransferKeys == {k \in DOMAIN xfer : xfer[k].state = "unused"}

\* The platform needs bytes [offset, offset+length) of placeholder f, which
\* lies under the root of live connection c: it opens a fetch request with a
\* fresh transfer key and invokes the connection's FETCH_DATA callback.
PlatformFetchData(c, f, offset, length) ==
    /\ conn[c].state = "live"
    /\ f \in DOMAIN files
    /\ Parent(f) = conn[c].root
    /\ files[f].FileAttributes # FILE_ATTRIBUTE_DIRECTORY
    /\ offset + length <= files[f].FileSize
    /\ ~(Range(offset, length) \subseteq files[f].OnDisk)
    /\ FreeTransferKeys # {}
    /\ CallbackFor(conn[c].table, "CF_CALLBACK_TYPE_FETCH_DATA") = <<"FetchDataCallback">>
    /\ LET k == Min(FreeTransferKeys)
           callbackInfo ==
               [ConnectionKey |-> c, TransferKey |-> k,
                FileIdentity |-> files[f].FileIdentity,
                FileIdentityLength |-> Len(files[f].FileIdentity)]
           callbackParameters ==
               [FetchData |-> [RequiredFileOffset |-> offset, RequiredLength |-> length]]
       IN  /\ xfer' = [xfer EXCEPT ![k] =
                         [state |-> "pending", conn |-> c, file |-> f,
                          identity |-> files[f].FileIdentity,
                          offset |-> offset, length |-> length, got |-> {}]]
           /\ engineQueue' = FetchDataCallback(callbackInfo, callbackParameters)
           /\ cb' = [cb EXCEPT ![k] = "in goHydrationCallback"]
    /\ UNCHANGED <<comMode, syncRoots, conn, files, s_callbackTable, last, hist>>

\* FetchDataReturn as it would be if the callback waited on its thread until
\* the engine had answered the request.
FetchDataReturn_Waits(k) ==
    /\ cb[k] = "in goHydrationCallback"
    /\ xfer[k].state \in {"answered", "failed"}
    /\ cb' = [cb EXCEPT ![k] = "returned"]
    /\ UNCHANGED <<comMode, syncRoots, conn, xfer, files, s_callbackTable,
                   engineQueue, last, hist>>

\* FetchDataCallback returns to the platform once goHydrationCallback has
\* returned; nothing in it waits for an answer.
FetchDataReturn(k) ==
    /\ cb[k] = "in goHydrationCallback"
    /\ cb' = [cb EXCEPT ![k] = "returned"]
    /\ UNCHANGED <<comMode, syncRoots, conn, xfer, files, s_callbackTable,
                   engineQueue, last, hist>>

\* The platform reuses the memory that held the identity of a callback that
\* has returned: the pointer FetchDataCallback was given dangles from here on.
PlatformReusesIdentityMemory(k) ==
    /\ cb[k] = "returned"
    /\ cb' = [cb EXCEPT ![k] = "returned, identity memory reused"]
    /\ UNCHANGED <<comMode, syncRoots, conn, xfer, files, s_callbackTable,
                   engineQueue, last, hist>>

\* CancelFetchDataCallback as it would be if it forwarded the cancellation to
\* the engine.
CancelFetchDataCallback_Forwards(callbackInfo, callbackParameters) ==
    /\ engineQueue' = Append(engineQueue,
                             [transferKey |-> callbackInfo.TransferKey,
                              cancelled |-> TRUE])
    /\ UNCHANGED <<s_callbackTable, cb, last, hist>>

\* static void CALLBACK CancelFetchDataCallback(callbackInfo, callbackParameters):
\* what it leaves of the bridge's and the engine's state.
CancelFetchDataCallback(callbackInfo, callbackParameters) ==
    UNCHANGED <<s_callbackTable, cb, engineQueue, last, hist>>

\* The platform no longer needs a pending fetch: it marks the request
\* cancelled and invokes the connection's CANCEL_FETCH_DATA callback.
PlatformCancelFetch(k) ==
    /\ xfer[k].state = "pending"
    /\ CallbackFor(conn[xfer[k].conn].table, "CF_CALLBACK_TYPE_CANCEL_FETCH_DATA")
         = <<"CancelFetchDataCallback">>
    /\ xfer' = [xfer EXCEPT ![k].state = "cancelled"]
    /\ CancelFetchDataCallback([ConnectionKey |-> xfer[k].conn, TransferKey |-> k], <<>>)
    /\ UNCHANGED <<comMode, syncRoots, conn, files>>

(* ---------- Transfer Responder ---------- *)

\* CfExecute(&opInfo, &opParams) for CF_OPERATION_TYPE_TRANSFER_DATA.  A key
\* pair that names no pending fetch of a live connection is refused.  A
\* failure status ends the fetch.  A success status must carry a buffer for
\* bytes of the required range; the fetch is answered once the range is there.
\* An answer to a cancelled fetch is accepted and discarded.
CfExecute(opInfo, opParams) ==
    LET c == opInfo.ConnectionKey
        k == opInfo.TransferKey
        td == opParams.TransferData
        known == /\ c \in DOMAIN conn /\ conn[c].state = "live"
                 /\ k \in DOMAIN xfer /\ xfer[k].conn = c
        same == [hr |-> S_OK, xfer |-> xfer, files |-> files]
    IN  IF ~known \/ xfer[k].state \notin {"pending", "cancelled"}
        THEN [same EXCEPT !.hr = HRESULT_FROM_WIN32(ERROR_CLOUD_FILE_INVALID_REQUEST)]
        ELSE IF xfer[k].state = "cancelled"
        THEN same
        ELSE IF ~NT_SUCCESS(td.CompletionStatus)
        THEN [same EXCEPT !.xfer = [xfer EXCEPT ![k].state = "failed"]]
        ELSE IF \/ td.Buffer = "nullptr" \/ td.Length <= 0
                \/ ~(Range(td.Offset, td.Length) \subseteq Range(xfer[k].offset, xfer[k].length))
        THEN [same EXCEPT !.hr = E_INVALIDARG]
        ELSE LET got == xfer[k].got \cup Range(td.Offset, td.Length)
                 f == xfer[k].file
             IN  [hr |-> S_OK,
                  xfer |-> [xfer EXCEPT ![k].got = got,
                                        ![k].state =
                                            IF Range(xfer[k].offset, xfer[k].length) \subseteq got
                                            THEN "answered" ELSE "pending"],
                  files |-> IF f \in DOMAIN files
                            THEN [files EXCEPT ![f].OnDisk = @ \cup Range(td.Offset, td.Length)]
                            ELSE files]

OperationInfo(conn_key, transfer_key) ==
    [Type |-> "CF_OPERATION_TYPE_TRANSFER_DATA",
     ConnectionKey |-> conn_key, TransferKey |-> transfer_key]

\* cfapi_transfer_data as it would be if it dropped CfExecute's result and
\* returned 0.
cfapi_transfer_data_Swallows(conn_key, transfer_key, data, offset, length) ==
    LET opInfo == OperationInfo(conn_key, transfer_key)
        opParams == [TransferData |->
                        [CompletionStatus |-> STATUS_SUCCESS, Buffer |-> data,
                         Offset |-> offset, Length |-> length]]
        r == CfExecute(opInfo, opParams)
    IN  /\ xfer' = r.xfer
        /\ files' = r.files
        /\ last' = [op |-> "cfapi_transfer_data",
                    args |-> <<conn_key, transfer_key, data, offset, length>>,
                    ret |-> Returns(0),
                    os |-> <<[fn |-> "CfExecute", hr |-> r.hr,
                              opInfo |-> opInfo, opParams |-> opParams]>>]
        /\ UNCHANGED <<comMode, syncRoots, conn, s_callbackTable, cb,
                       engineQueue, hist>>

\* long cfapi_transfer_data(conn_key, transfer_key, data, offset, length)
cfapi_transfer_data(conn_key, transfer_key, data, offset, length) ==
    LET opInfo == OperationInfo(conn_key, transfer_key)
        opParams == [TransferData |->
                        [CompletionStatus |-> STATUS_SUCCESS, Buffer |-> data,
                         Offset |-> offset, Length |-> length]]
        r == CfExecute(opInfo, opParams)
    IN  /\ xfer' = r.xfer
        /\ files' = r.files
        /\ last' = [op |-> "cfapi_transfer_data",
                    args |-> <<conn_key, transfer_key, data, offset, length>>,
                    ret |-> Returns(r.hr),
                    os |-> <<[fn |-> "CfExecute", hr |-> r.hr,
                              opInfo |-> opInfo, opParams |-> opParams]>>]
        /\ UNCHANGED <<comMode, syncRoots, conn, s_callbackTable, cb,
                       engineQueue, hist>>

\* What the engine knows after Fail: it has called Fail for a transfer key
\* the platform issued (called), and it has issued a failure for a fetch it
\* holds (failed): a failure status for a pending transfer key, with the key
\* of that fetch's live connection.
NoteFail(conn_key, transfer_key, hr) ==
    LET issued == transfer_key \in DOMAIN xfer /\ xfer[transfer_key].state # "unused"
        h == IF issued THEN [hist EXCEPT !.called = @ \cup {transfer_key}] ELSE hist
    IN  IF /\ conn_key \in DOMAIN conn /\ conn[conn_key].state = "live"
           /\ issued
           /\ xfer[transfer_key].state = "pending"
           /\ xfer[transfer_key].conn = conn_key
           /\ hr < 0
        THEN [h EXCEPT !.failed = @ \cup {transfer_key}]
        ELSE h

\* cfapi_transfer_error as it would be if it filled the completion and never
\* handed it to CfExecute.
cfapi_transfer_error_NoExecute(conn_key, transfer_key, offset, hr) ==
    /\ hist' = NoteFail(conn_key, transfer_key, hr)
    /\ last' = [op |-> "cfapi_transfer_error",
                args |-> <<conn_key, transfer_key, offset, hr>>,
                ret |-> Void,
                os |-> <<>>]
    /\ UNCHANGED <<comMode, syncRoots, conn, xfer, files, s_callbackTable, cb,
                   engineQueue>>

\* cfapi_transfer_error as it would be with the completion status of
\* cfapi_transfer_data left in place.
cfapi_transfer_error_Success(conn_key, transfer_key, offset, hr) ==
    LET opInfo == OperationInfo(conn_key, transfer_key)
        opParams == [TransferData |->
                        [CompletionStatus |-> STATUS_SUCCESS, Buffer |-> "nullptr",
                         Offset |-> offset, Length |-> 0]]
        r == CfExecute(opInfo, opParams)
    IN  /\ xfer' = r.xfer
        /\ files' = r.files
        /\ hist' = NoteFail(conn_key, transfer_key, hr)
        /\ last' = [op |-> "cfapi_transfer_error",
                    args |-> <<conn_key, transfer_key, offset, hr>>,
                    ret |-> Void,
                    os |-> <<[fn |-> "CfExecute", hr |-> r.hr,
                              opInfo |-> opInfo, opParams |-> opParams]>>]
        /\ UNCHANGED <<comMode, syncRoots, conn, s_callbackTable, cb, engineQueue>>

\* void cfapi_transfer_error(conn_key, transfer_key, offset, hr)
cfapi_transfer_error(conn_key, transfer_key, offset, hr) ==
    LET opInfo == OperationInfo(conn_key, transfer_key)
        opParams == [TransferData |->
                        [CompletionStatus |-> hr, Buffer |-> "nullptr",
                         Offset |-> offset, Length |-> 0]]
        r == CfExecute(opInfo, opParams)
    IN  /\ xfer' = r.xfer
        /\ files' = r.files
        /\ hist' = NoteFail(conn_key, transfer_key, hr)
        /\ last' = [op |-> "cfapi_transfer_error",
                    args |-> <<conn_key, transfer_key, offset, hr>>,
                    ret |-> Void,
                    os |-> <<[fn |-> "CfExecute", hr |-> r.hr,
                              opInfo |-> opInfo, opParams |-> opParams]>>]
        /\ UNCHANGED <<comMode, syncRoots, conn, s_callbackTable, cb, engineQueue>>

(* ---------- the inputs of the bridge's run ---------- *)

\* "s" (the directory that exists) and a path with a byte that is no UTF-8.
RootPathArgs == {CString(SyncDir), CString(<<255>>)}
\* "F" and "G"
DisplayNameArgs == {CString(<<70>>), CString(<<71>>)}
\* "1"
VersionArgs == {CString(<<49>>)}

\* The scenario's placeholder: ("s", "a", "i", 2, 1700000000, file).
ScenarioName == CString(<<97>>)
ScenarioIdentity == CString(<<105>>)
ScenarioSize == 2
ScenarioFile == PathJoin(SyncDir, <<97>>)

\* The ranges the platform asks for and the engine answers with.
FetchRanges == {<<0, 2>>, <<1, 1>>}
AnswerRanges == {<<0, 2>>, <<0, 1>>}
\* The status codes the engine fails a fetch with.
FailCodes == {E_FAIL, S_OK, S_FALSE}

\* The bridge at work: one root, its connections, the fetches of the
\* scenario's placeholder and the engine's answers.
Next ==
    \/ cfapi_register_sync_root(CString(SyncDir), CString(<<70>>), CString(<<49>>))
    \/ \E p \in RootPathArgs : cfapi_connect_sync_root(p)
    \/ \E c \in ConnKeys : cfapi_disconnect_sync_root(c)
    \/ cfapi_create_placeholder(CString(SyncDir), ScenarioName, ScenarioIdentity,
                                ScenarioSize, ScenarioMtime, 0)
    \/ \E c \in ConnKeys, r \in FetchRanges :
          PlatformFetchData(c, ScenarioFile, r[1], r[2])
    \/ \E k \in TransferKeys : FetchDataReturn(k)
    \/ \E k \in TransferKeys : PlatformCancelFetch(k)
    \/ \E c \in ConnKeys, k \in TransferKeys, r \in AnswerRanges :
          cfapi_transfer_data(c, k, "data", r[1], r[2])
    \/ \E c \in ConnKeys, k \in TransferKeys, hr \in FailCodes :
          cfapi_transfer_error(c, k, 0, hr)

Spec == Init /\ [][Next]_vars

\* The registrar and the connection manager with every argument they take.
NextRoot ==
    \/ HostEntersSTA
    \/ cfapi_init
    \/ \E p \in RootPathArgs, n \in DisplayNameArgs, v \in VersionArgs :
          cfapi_register_sync_root(p, n, v)
    \/ \E p \in RootPathArgs : cfapi_unregister_sync_root(p)
    \/ \E p \in RootPathArgs : cfapi_connect_sync_root(p)
    \/ \E c \in ConnKeys : cfapi_disconnect_sync_root(c)

SpecRoot == Init /\ [][NextRoot]_vars
(* ---------- the inputs of the placeholder manager's run ---------- *)

\* "s" and "x" (no such directory)
ParentPathArgs == {CString(SyncDir), CString(<<120>>)}
\* "a" and the empty name
NameArgs == {CString(<<97>>), CString(<<>>)}
\* The identity blobs the engine chooses: "i", "k", and "i", 0, "j".
IdentityBlobs == {<<105>>, <<107>>, <<105, 0, 106>>}
FileSizeArgs == {0, 2}
\* "s\a", "s\b" (no such file) and "s" (the root itself)
FilePathArgs == {CString(PathJoin(SyncDir, <<97>>)), CString(PathJoin(SyncDir, <<98>>)),
                 CString(SyncDir)}

\* The placeholder manager with every argument it takes, under one root.
NextPh ==
    \/ cfapi_register_sync_root(CString(SyncDir), CString(<<70>>), CString(<<49>>))
    \/ \E p \in ParentPathArgs, n \in NameArgs, b \in IdentityBlobs,
          sz \in FileSizeArgs, t \in MtimeArgs, d \in {0, 1} :
          cfapi_create_placeholder(p, n, CString(b), sz, t, d)
    \/ \E p \in FilePathArgs, b \in IdentityBlobs, sz \in FileSizeArgs, t \in MtimeArgs :
          cfapi_update_placeholder(p, CString(b), sz, t)
    \/ \E p \in FilePathArgs : cfapi_dehydrate_placeholder(p)
    \/ PlatformHydrates(ScenarioFile)
    \/ ApplicationWrites(ScenarioFile)

SpecPh == Init /\ [][NextPh]_vars

\* The dispatcher at work on one connection, with up to MaxCallbacks fetches
\* of the scenario's placeholder under way at once.
DispatchKeys == 1..MaxCallbacks

InitDispatch ==
    /\ comMode = "none"
    /\ syncRoots = <<>>
    /\ conn = [c \in {1} |-> NoConn]
    /\ xfer = [k \in DispatchKeys |-> NoXfer]
    /\ files = <<>>
    /\ s_callbackTable = CallbackTable
    /\ cb = [k \in DispatchKeys |-> "none"]
    /\ engineQueue = <<>>
    /\ last = [op |-> "none", args |-> <<>>, ret |-> Void, os |-> <<>>]
    /\ hist = [called |-> {}, failed |-> {}, disconnected |-> {}]

NextDispatch ==
    \/ cfapi_register_sync_root(CString(SyncDir), CString(<<70>>), CString(<<49>>))
    \/ cfapi_connect_sync_root(CString(SyncDir))
    \/ cfapi_disconnect_sync_root(1)
    \/ cfapi_create_placeholder(CString(SyncDir), ScenarioName, ScenarioIdentity,
                                ScenarioSize, ScenarioMtime, 0)
    \/ \E r \in FetchRanges : PlatformFetchData(1, ScenarioFile, r[1], r[2])
    \/ \E k \in DispatchKeys : FetchDataReturn(k)
    \/ \E k \in DispatchKeys : PlatformCancelFetch(k)
    \/ \E k \in DispatchKeys : cfapi_transfer_data(1, k, "data", 0, ScenarioSize)
    \/ \E k \in DispatchKeys : cfapi_transfer_error(1, k, 0, E_FAIL)

SpecDispatch == InitDispatch /\ [][NextDispatch]_vars

\* The dispatcher's requests and the identity memory of their callbacks, which
\* the platform reuses once a callback has returned.
NextMemory ==
    \/ cfapi_register_sync_root(CString(SyncDir), CString(<<70>>), CString(<<49>>))
    \/ cfapi_connect_sync_root(CString(SyncDir))
    \/ cfapi_disconnect_sync_root(1)
    \/ \E b \in IdentityBlobs :
          cfapi_create_placeholder(CString(SyncDir), ScenarioName, CString(b),
                                   ScenarioSize, ScenarioMtime, 0)
    \/ \E r \in FetchRanges : PlatformFetchData(1, ScenarioFile, r[1], r[2])
    \/ \E k \in DispatchKeys : FetchDataReturn(k)
    \/ \E k \in DispatchKeys : PlatformReusesIdentityMemory(k)

SpecMemory == InitDispatch /\ [][NextMemory]_vars

\* is_directory: a file, a directory, and a directory given as another
\* non-zero value.
DirectoryArgs == {0, 1, -1}

\* The time codec at work: placeholders created with every sample time.
NextTime ==
    \/ cfapi_register_sync_root(CString(SyncDir), CString(<<70>>), CString(<<49>>))
    \/ \E t \in TimeArgs, d \in DirectoryArgs :
          cfapi_create_placeholder(CString(SyncDir), ScenarioName, ScenarioIdentity,
                                   ScenarioSize, t, d)

SpecTime == Init /\ [][NextTime]_vars
(* ====================== the claims ====================== *)

TransferOps == {"cfapi_transfer_data", "cfapi_transfer_error"}

\* The last call was Complete or Fail with a transfer key of a connection
\* that had been disconnected before the call.
StaleKeyCall ==
    /\ last.op \in TransferOps
    /\ xfer[last.args[2]].state # "unused"
    /\ conn[xfer[last.args[2]].conn].state = "closed"

\* C1: Complete or Fail with a transfer key of an already disconnected
\* connection reports a failure status to its caller; it never returns
\* without one.
C1_StaleKeyReported ==
    StaleKeyCall => (last.ret # Void /\ FAILED(last.ret[1]))

C3_StaleKeyIgnored ==
    StaleKeyCall => (last.ret = Void \/ SUCCEEDED(last.ret[1]))

\* C3 as amended: a Complete or Fail with a stale key is handed to the
\* platform like any other; the platform refuses it and nothing of the
\* platform's state changes; Complete returns that refusal to its caller and
\* Fail returns nothing.
C3_StaleKeyHandedOn ==
    /\ [](StaleKeyCall =>
            /\ Len(last.os) = 1 /\ last.os[1].fn = "CfExecute"
            /\ last.os[1].hr = HRESULT_FROM_WIN32(ERROR_CLOUD_FILE_INVALID_REQUEST)
            /\ last.op = "cfapi_transfer_data" => last.ret = <<last.os[1].hr>>
            /\ last.op = "cfapi_transfer_error" => last.ret = Void)
    /\ [][(StaleKeyCall' /\ last' # last) => platform' = platform]_vars

\* A Complete with a stale key has been made.
C3_Witness == StaleKeyCall /\ last.op = "cfapi_transfer_data"

(* ---------- reading a timestamp back ---------- *)

\* Division of a non-negative value by a small divisor, most significant byte
\* first; DivRem(a, d, i, r) yields the quotient bytes i..1 and the remainder.
RECURSIVE DivQ(_, _, _, _)
DivQ(a, d, i, r) ==
    IF i = 0 THEN <<>>
    ELSE LET cur == r * 256 + a[i]
         IN  DivQ(a, d, i - 1, cur % d) \o <<cur \div d>>

RECURSIVE DivR(_, _, _, _)
DivR(a, d, i, r) ==
    IF i = 0 THEN r ELSE DivR(a, d, i - 1, (r * 256 + a[i]) % d)

DivSmall(a, d) == DivQ(a, d, Len(a), 0)
RemSmall(a, d) == DivR(a, d, Len(a), 0)

IsNeg64(a) == a[8] >= 128

\* What a reader of the placeholder's metadata derives from a stored time:
\* whole seconds since 1970, and whether the stored value is a whole number
\* of seconds at or after 1601 (a negative LONGLONG is no valid file time).
FileTimeToUnix(q) ==
    Add64(DivSmall(DivSmall(q, 10000), 1000), Neg64(EPOCH_DIFF))

FileTimeWholeSeconds(q) ==
    /\ ~IsNeg64(q)
    /\ RemSmall(q, 10000) = 0
    /\ RemSmall(DivSmall(q, 10000), 1000) = 0

\* The blob a caller handed over in the memory mem (the memory less its
\* terminator), and the path of the placeholder a create call names.
BlobOf(mem) == SubSeq(mem, 1, Len(mem) - 1)
CreatedPath(args) == PathJoin(Utf8ToWide(args[1]), Utf8ToWide(args[2]))

CreateSucceeded ==
    /\ last.op = "cfapi_create_placeholder"
    /\ SUCCEEDED(last.ret[1])

\* C4: after a successful CreatePlaceholder with identity blob B, size and
\* timestamp T, the placeholder's metadata reads back the same size, an
\* identity byte-for-byte equal to B (of B's length) and T in whole seconds.
C4_CreateRoundTrip ==
    CreateSucceeded =>
        LET f == CreatedPath(last.args)
            B == BlobOf(last.args[3])
        IN  /\ f \in DOMAIN files
            /\ files[f].FileSize = last.args[4]
            /\ Len(files[f].FileIdentity) = Len(B)
            /\ files[f].FileIdentity = B
            /\ FileTimeWholeSeconds(files[f].LastWriteTime)
            /\ FileTimeToUnix(files[f].LastWriteTime) = last.args[5]

\* What does hold of a created placeholder: size and time read back, and the
\* identity is B up to its first zero byte.
C4_RoundTripUpToFirstZero ==
    CreateSucceeded =>
        LET f == CreatedPath(last.args)
            B == BlobOf(last.args[3])
        IN  /\ f \in DOMAIN files
            /\ files[f].FileSize = last.args[4]
            /\ files[f].FileIdentity = SubSeq(B, 1, strlen(last.args[3]))
            /\ FileTimeWholeSeconds(files[f].LastWriteTime)
            /\ FileTimeToUnix(files[f].LastWriteTime) = last.args[5]
            /\ FileTimeToUnix(files[f].CreationTime) = last.args[5]
            /\ (\A i \in 1..Len(B) : B[i] # 0) => files[f].FileIdentity = B

\* The bytes the platform has been given for the fetch with transfer key k.
Delivered(k) == xfer[k].got

\* C5 as claimed: once Fail has been called for a transfer key, whatever its
\* arguments, no later step delivers data for that key.
C5_FailAlwaysTerminal ==
    [][\A k \in hist.called : Delivered(k)' = Delivered(k)]_vars

\* C5: once Fail has been called with a failure status for a pending transfer
\* key together with the key of its live connection, no later step delivers
\* data for that key, and every later Complete for it returns a failure.
C5_AcceptedFailTerminal ==
    /\ [][\A k \in hist.failed : Delivered(k)' = Delivered(k)]_vars
    /\ []((last.op = "cfapi_transfer_data" /\ last.args[2] \in hist.failed)
            => FAILED(last.ret[1]))
    /\ [](\A k \in hist.failed : xfer[k].state \notin {"pending", "answered"})

C5_Witness ==
    /\ last.op = "cfapi_transfer_data"
    /\ last.args[2] \in hist.failed
    /\ conn[last.args[1]].state = "live"
    /\ xfer[last.args[2]].conn = last.args[1]

\* The completion a transfer operation handed to the platform.
Completion == last.os[1].opParams.TransferData
HandedOver == Len(last.os) = 1 /\ last.os[1].fn = "CfExecute"

\* C6 as claimed: for every errorCode, the completion Fail hands over has a
\* failure status, a null buffer and length 0; Complete's has status 0.
C6_FailAlwaysSignalsFailure ==
    /\ last.op = "cfapi_transfer_error" =>
         /\ HandedOver
         /\ ~NT_SUCCESS(Completion.CompletionStatus)
         /\ Completion.Buffer = "nullptr"
         /\ Completion.Length = 0
    /\ last.op = "cfapi_transfer_data" =>
         /\ HandedOver
         /\ Completion.CompletionStatus = STATUS_SUCCESS

\* C6: the completion Fail hands over carries errorCode itself as its status,
\* the given keys and offset, a null buffer and length 0; it is a failure
\* status whenever errorCode is a failure code (negative), and then a fetch
\* the platform accepted it for has failed.  Complete's completion has status 0.
C6_FailCarriesGivenStatus ==
    /\ last.op = "cfapi_transfer_error" =>
         /\ HandedOver
         /\ last.os[1].opInfo = OperationInfo(last.args[1], last.args[2])
         /\ Completion.CompletionStatus = last.args[4]
         /\ Completion.Offset = last.args[3]
         /\ Completion.Buffer = "nullptr"
         /\ Completion.Length = 0
         /\ last.args[4] < 0 =>
              /\ ~NT_SUCCESS(Completion.CompletionStatus)
              /\ last.os[1].hr = S_OK =>
                   xfer[last.args[2]].state \in {"failed", "cancelled"}
    /\ last.op = "cfapi_transfer_data" =>
         /\ HandedOver
         /\ Completion.CompletionStatus = STATUS_SUCCESS

C6_Witness ==
    /\ last.op = "cfapi_transfer_error"
    /\ last.args[4] < 0
    /\ xfer[last.args[2]].state = "failed"
    /\ xfer[last.args[2]].got # {}

\* C7: once Disconnect has returned for a connection, no step changes a fetch
\* that connection had been asked for: no data is delivered for it, and it is
\* neither pending nor ever answered.
C7_DisconnectInvalidatesTransfers ==
    /\ [][\A k \in TransferKeys :
            (xfer[k].state # "unused" /\ xfer[k].conn \in hist.disconnected)
               => /\ Delivered(k)' = Delivered(k)
                  /\ xfer'[k].state = xfer[k].state]_vars
    /\ [](\A k \in TransferKeys :
            (xfer[k].state # "unused" /\ xfer[k].conn \in hist.disconnected)
               => xfer[k].state # "pending")

C7_Witness ==
    /\ last.op = "cfapi_transfer_data"
    /\ xfer[last.args[2]].state = "abandoned"
    /\ xfer[last.args[2]].conn \in hist.disconnected
    /\ Range(last.args[4], last.args[5]) \subseteq
          Range(xfer[last.args[2]].offset, xfer[last.args[2]].length)

\* C8: every operation but Disconnect returns the status of a platform call
\* that failed, unchanged: no failure the platform reported is swallowed or
\* turned into success.
C8_StatusNeverSwallowed ==
    last.op # "cfapi_disconnect_sync_root" =>
        \A i \in 1..Len(last.os) :
            ("hr" \in DOMAIN last.os[i] /\ FAILED(last.os[i].hr))
                => last.ret = <<last.os[i].hr>>

\* The operations that do return every failure of their platform calls.
C8_ReturningOps ==
    (last.op \notin {"cfapi_disconnect_sync_root", "cfapi_transfer_error", "cfapi_init"}) =>
        \A i \in 1..Len(last.os) :
            ("hr" \in DOMAIN last.os[i] /\ FAILED(last.os[i].hr))
                => last.ret = <<last.os[i].hr>>

RegisterRepeated ==
    /\ last.op = "cfapi_register_sync_root"
    /\ last.repeated

\* C9: a Register that repeats a successful Register with the same arguments
\* succeeds and leaves the platform's registrations as they were: the path
\* registered with the provider identity, the name, the version and the
\* policies hydration full, population full, in-sync track-all, hard-link none.
C9_RegisterIdempotent ==
    /\ [](RegisterRepeated =>
            LET wRoot == Utf8ToWide(last.args[1])
            IN  /\ last.ret = <<S_OK>>
                /\ wRoot \in DOMAIN syncRoots
                /\ syncRoots[wRoot] =
                     [reg |-> [ProviderName    |-> Utf8ToWide(last.args[2]),
                               ProviderVersion |-> Utf8ToWide(last.args[3]),
                               ProviderId      |-> s_providerId],
                      policies |-> [Hydration  |-> "CF_HYDRATION_POLICY_FULL",
                                    Population |-> "CF_POPULATION_POLICY_FULL",
                                    InSync     |-> "CF_INSYNC_POLICY_TRACK_ALL",
                                    HardLink   |-> "CF_HARDLINK_POLICY_NONE"]])
    /\ [][(RegisterRepeated' /\ last' # last) => syncRoots' = syncRoots]_vars

C9_Witness ==
    /\ RegisterRepeated
    /\ last.ret = <<S_OK>>
    /\ Utf8ToWide(last.args[1]) \in DOMAIN syncRoots

UpdateAfterDehydrate ==
    /\ last.op = "cfapi_update_placeholder"
    /\ last.afterDehydrate

\* C10: an UpdatePlaceholder that follows a successful Dehydrate of the same
\* placeholder succeeds, and the placeholder is then in sync and carries the
\* update's size, its time (as last-write and change time) and its identity.
C10_DehydrateThenUpdate ==
    UpdateAfterDehydrate =>
        LET f == Utf8ToWide(last.args[1])
        IN  /\ last.ret = <<S_OK>>
            /\ f \in DOMAIN files
            /\ files[f].InSync
            /\ files[f].FileSize = last.args[3]
            /\ FileTimeToUnix(files[f].LastWriteTime) = last.args[4]
            /\ FileTimeToUnix(files[f].ChangeTime) = last.args[4]
            /\ files[f].FileIdentity = BlobOf(last.args[2])

\* What does hold after Dehydrate and Update: all of it, with the identity
\* cut at its first zero byte.
C10_UpdateUpToFirstZero ==
    UpdateAfterDehydrate =>
        LET f == Utf8ToWide(last.args[1])
        IN  /\ last.ret = <<S_OK>>
            /\ f \in DOMAIN files
            /\ files[f].InSync
            /\ files[f].OnDisk = {}
            /\ files[f].FileSize = last.args[3]
            /\ FileTimeToUnix(files[f].LastWriteTime) = last.args[4]
            /\ FileTimeToUnix(files[f].ChangeTime) = last.args[4]
            /\ files[f].FileIdentity =
                  SubSeq(BlobOf(last.args[2]), 1, strlen(last.args[2]))

\* q is the file time of Unix time n, worked out backwards and without the
\* codec's constants: q is a whole number of seconds (10000 * 1000 ticks
\* each), and those seconds are 134774 days (1601-01-01 to 1970-01-01) and n
\* seconds, split at 86400 seconds a day.
IsFileTimeOf(q, n) ==
    LET secs == DivSmall(DivSmall(q, 10000), 1000)
    IN  /\ FileTimeWholeSeconds(q)
        /\ DivSmall(secs, 86400) = ToI64(134774 + (n \div 86400))
        /\ RemSmall(secs, 86400) = n % 86400

\* C11: the timestamp CreatePlaceholder converts from Unix time n is
\* (n + 11644473600) * 10000000, its low and high halves together hold all of
\* it, and the one value is written to creation, last write, change and last
\* access time alike, in the record handed over and in the placeholder made.
C11_TimestampConversion ==
    last.op = "cfapi_create_placeholder" =>
        \A n \in TimeSamples :
            last.args[5] = ToI64(n) =>
                LET q == last.phInfo.LastWriteTime
                    f == CreatedPath(last.args)
                IN  /\ IsFileTimeOf(q, n)
                    /\ Len(q) = 8
                    /\ last.phInfo.CreationTime = q
                    /\ last.phInfo.ChangeTime = q
                    /\ last.phInfo.LastAccessTime = q
                    /\ CreateSucceeded =>
                         /\ files[f].CreationTime = q
                         /\ files[f].LastWriteTime = q
                         /\ files[f].ChangeTime = q
                         /\ files[f].LastAccessTime = q

C11_Witness ==
    /\ CreateSucceeded
    /\ last.args[5] = ToI64(-86401)
    /\ IsFileTimeOf(files[CreatedPath(last.args)].LastAccessTime, -86401)

\* The fetches the platform has issued, and the requests the engine has been
\* handed for transfer key k.
Issued == {k \in DOMAIN xfer : xfer[k].state # "unused"}
RequestsFor(k) == {i \in 1..Len(engineQueue) : engineQueue[i].transferKey = k}

\* The request carries what the callback for transfer key k was invoked with,
\* the connection key aside.
CarriesOwnArguments(r, k) ==
    /\ r.fileIdentity = xfer[k].identity
    /\ r.fileIdentityLen = Len(xfer[k].identity)
    /\ r.offset = xfer[k].offset
    /\ r.length = xfer[k].length
    /\ r.transferKey = k

\* C12: every FetchData callback has handed the engine exactly one request,
\* which carries that callback's identity blob and length, offset, length,
\* transfer key and connection key; callbacks for overlapping ranges of one
\* file each have their own request.
C12_OneRequestPerCallback ==
    /\ Len(engineQueue) = Cardinality(Issued)
    /\ \A k \in Issued :
         /\ Cardinality(RequestsFor(k)) = 1
         /\ \A i \in RequestsFor(k) :
              /\ CarriesOwnArguments(engineQueue[i], k)
              /\ "connectionKey" \in DOMAIN engineQueue[i]
              /\ engineQueue[i].connectionKey = xfer[k].conn

\* What does hold: one request for each callback, with everything of the
\* callback but the connection key.
C12_OneRequestWithoutConnectionKey ==
    /\ Len(engineQueue) = Cardinality(Issued)
    /\ \A k \in Issued :
         /\ Cardinality(RequestsFor(k)) = 1
         /\ \A i \in RequestsFor(k) :
              /\ CarriesOwnArguments(engineQueue[i], k)
              /\ "connectionKey" \notin DOMAIN engineQueue[i]

\* The callbacks whose identity memory the platform has taken back.
MemoryReused == {k \in DOMAIN cb : cb[k] = "returned, identity memory reused"}

UnderWay == {k \in DOMAIN cb : cb[k] = "in goHydrationCallback"}

\* C14: in every interleaving of fetch and cancel callbacks with each other
\* and with the operations, the callback table, and the table each connection
\* was given, stay the two initial entries; the request of each callback is
\* made of that callback's own arguments; and no step changes a request
\* another callback has dispatched.
C14_Reentrant ==
    /\ [](s_callbackTable = CallbackTable)
    /\ [](\A c \in DOMAIN conn : conn[c].state # "unused" => conn[c].table = CallbackTable)
    /\ [](\A k \in Issued : \A i \in RequestsFor(k) :
            CarriesOwnArguments(engineQueue[i], k))
    /\ [][/\ Len(engineQueue') \in {Len(engineQueue), Len(engineQueue) + 1}
          /\ SubSeq(engineQueue', 1, Len(engineQueue)) = engineQueue]_vars

C14_Witness ==
    /\ Cardinality(UnderWay) >= 2
    /\ \E j, k \in UnderWay :
         /\ xfer[j].state = "cancelled"
         /\ xfer[k].state = "pending"
         /\ xfer[j].offset # xfer[k].offset
         /\ Range(xfer[j].offset, xfer[j].length) \cap Range(xfer[k].offset, xfer[k].length) # {}

\* The states of a request: it has arrived once the platform has issued its
\* transfer key, it is dispatched once the engine holds its request, and it
\* ends answered (by data in full or by a failure), cancelled or abandoned.
Dispatched(k) == RequestsFor(k) # {}
AnsweredStates == {"answered", "failed"}
Terminal == AnsweredStates \cup {"cancelled", "abandoned"}

CancelStep ==
    \E k \in DOMAIN xfer : xfer[k].state = "pending" /\ xfer'[k].state = "cancelled"

TransferOnCancelled ==
    /\ last.op \in TransferOps
    /\ xfer[last.args[2]].state = "cancelled"

\* C18: the cancel callback changes nothing of the bridge, hands the engine
\* nothing and sends the platform no completion; the cancelled request stays
\* with the engine, and a later Complete or Fail for its transfer key is
\* handed to the platform with the keys it was given.
C18_CancelIsNoOp ==
    /\ [][CancelStep =>
            /\ UNCHANGED <<s_callbackTable, cb, engineQueue, last, hist>>
            /\ UNCHANGED <<comMode, syncRoots, conn, files>>
            /\ \A k \in DOMAIN xfer :
                 xfer'[k] # xfer[k] =>
                    xfer'[k] = [xfer[k] EXCEPT !.state = "cancelled"]]_vars
    /\ [](\A k \in DOMAIN xfer : xfer[k].state = "cancelled" => Dispatched(k))
    /\ [](TransferOnCancelled =>
            /\ HandedOver
            /\ last.os[1].opInfo = OperationInfo(last.args[1], last.args[2]))

C18_Witness ==
    /\ TransferOnCancelled
    /\ last.op = "cfapi_transfer_error"
    /\ HandedOver
    /\ cb[last.args[2]] = "in goHydrationCallback"

\* A step that is a call of cfapi_update_placeholder.
UpdateStep == last'.op = "cfapi_update_placeholder" /\ last' # last
UpdatedPath == Utf8ToWide(last.args[1])
OpenFailed == last.os[1].handle = INVALID_HANDLE_VALUE

\* C16: a successful UpdatePlaceholder leaves the placeholder with the new
\* size, the time of mtime as last-write and change time, the new identity in
\* its full length, and in sync; an UpdatePlaceholder whose path cannot be
\* opened returns an error and changes no placeholder.
C16_UpdatePushesMetadata ==
    [][UpdateStep =>
         /\ last'.ret = <<S_OK>> =>
              /\ UpdatedPath' \in DOMAIN files'
              /\ files'[UpdatedPath'].FileSize = last'.args[3]
              /\ FileTimeToUnix(files'[UpdatedPath'].LastWriteTime) = last'.args[4]
              /\ FileTimeToUnix(files'[UpdatedPath'].ChangeTime) = last'.args[4]
              /\ files'[UpdatedPath'].FileIdentity = BlobOf(last'.args[2])
              /\ Len(files'[UpdatedPath'].FileIdentity) = Len(BlobOf(last'.args[2]))
              /\ files'[UpdatedPath'].InSync
         /\ OpenFailed' => (FAILED(last'.ret[1]) /\ files' = files)]_vars

\* What does hold of UpdatePlaceholder: all of it, with the identity cut at
\* its first zero byte.
C16_UpdateUpToFirstZero ==
    [][UpdateStep =>
         /\ last'.ret = <<S_OK>> =>
              /\ UpdatedPath' \in DOMAIN files'
              /\ files'[UpdatedPath'].FileSize = last'.args[3]
              /\ FileTimeToUnix(files'[UpdatedPath'].LastWriteTime) = last'.args[4]
              /\ FileTimeToUnix(files'[UpdatedPath'].ChangeTime) = last'.args[4]
              /\ files'[UpdatedPath'].FileIdentity =
                    SubSeq(BlobOf(last'.args[2]), 1, strlen(last'.args[2]))
              /\ files'[UpdatedPath'].InSync
         /\ OpenFailed' => (FAILED(last'.ret[1]) /\ files' = files)]_vars

MarkInSync == "CF_PLACEHOLDER_CREATE_FLAG_MARK_IN_SYNC"
DisableOnDemandPopulation == "CF_PLACEHOLDER_CREATE_FLAG_DISABLE_ON_DEMAND_POPULATION"

\* C17: the record CreatePlaceholder builds is marked in-sync; it has the
\* directory attribute and on-demand population disabled exactly when
\* is_directory is non-zero, and otherwise the normal-file attribute and no
\* population flag; the placeholder made of it is in sync, and a directory
\* is not populated on demand.
C17_CreateFlags ==
    last.op = "cfapi_create_placeholder" =>
        LET ph == last.phInfo
            isDir == last.args[6] # 0
        IN  /\ MarkInSync \in ph.Flags
            /\ isDir <=> DisableOnDemandPopulation \in ph.Flags
            /\ isDir <=> ph.FileAttributes = FILE_ATTRIBUTE_DIRECTORY
            /\ ~isDir => (ph.FileAttributes = FILE_ATTRIBUTE_NORMAL /\ ph.Flags = {MarkInSync})
            /\ CreateSucceeded =>
                 /\ files[CreatedPath(last.args)].InSync
                 /\ files[CreatedPath(last.args)].FileAttributes = ph.FileAttributes
                 /\ ~files[CreatedPath(last.args)].OnDemandPopulation

C17_Witness ==
    /\ CreateSucceeded
    /\ last.args[6] = -1
    /\ files[CreatedPath(last.args)].FileAttributes = FILE_ATTRIBUTE_DIRECTORY
    /\ DisableOnDemandPopulation \in last.phInfo.Flags

HandleOps == {"cfapi_update_placeholder", "cfapi_dehydrate_placeholder"}
RequestOf(op) ==
    IF op = "cfapi_update_placeholder" THEN "CfUpdatePlaceholder"
    ELSE "CfDehydratePlaceholder"
CallsOf(fn) == {i \in 1..Len(last.os) : last.os[i].fn = fn}

\* C19: UpdatePlaceholder and Dehydrate open the path first; when the open
\* fails they return the open error and make no other platform call; when it
\* succeeds they make exactly one update or dehydrate request on the handle,
\* close that handle exactly once, after the request, and return the
\* request's status, failure or not.
C19_HandleDiscipline ==
    last.op \in HandleOps =>
        /\ last.os[1].fn = "CreateFileW"
        /\ CallsOf("CreateFileW") = {1}
        /\ IF OpenFailed
           THEN /\ Len(last.os) = 1
                /\ last.ret = <<HRESULT_FROM_WIN32(ERROR_FILE_NOT_FOUND)>>
           ELSE /\ CallsOf(RequestOf(last.op)) = {2}
                /\ CallsOf("CloseHandle") = {3}
                /\ Len(last.os) = 3
                /\ last.os[2].handle = last.os[1].handle
                /\ last.os[3].handle = last.os[1].handle
                /\ last.ret = <<last.os[2].hr>>

C19_Witness ==
    /\ last.op = "cfapi_dehydrate_placeholder"
    /\ ~OpenFailed
    /\ FAILED(last.os[2].hr)
    /\ CallsOf("CloseHandle") = {3}

\* The status CfCreatePlaceholders returned and the Result it left in the entry.
CreateCallStatus == last.os[1].hr
EntryResult == last.phInfo.Result

\* C20: CreatePlaceholder returns the platform call's status when that call
\* failed, the entry's Result when the call succeeded and the entry failed,
\* and success only when both succeeded.
C20_CreateReportsEitherFailure ==
    last.op = "cfapi_create_placeholder" =>
        /\ FAILED(CreateCallStatus) => last.ret = <<CreateCallStatus>>
        /\ (SUCCEEDED(CreateCallStatus) /\ FAILED(EntryResult)) => last.ret = <<EntryResult>>
        /\ SUCCEEDED(last.ret[1]) <=> (SUCCEEDED(CreateCallStatus) /\ SUCCEEDED(EntryResult))
        /\ (FAILED(CreateCallStatus) \/ FAILED(EntryResult)) => FAILED(last.ret[1])

C20_Witness ==
    /\ last.op = "cfapi_create_placeholder"
    /\ SUCCEEDED(CreateCallStatus)
    /\ FAILED(EntryResult)
    /\ last.ret = <<HRESULT_FROM_WIN32(ERROR_ALREADY_EXISTS)>>

=============================================================================
